---- MODULE Spec2Model ----
(***************************************************************************)
(* Model of epub_sampler (src/main.py): extraction of the first 10% of an  *)
(* EPUB, measured in visible characters, into a new EPUB.                   *)
(*                                                                         *)
(* Characters are integers: SP and NL are the white-space characters, any  *)
(* other integer is a visible character.  A markup document is a tree of   *)
(* text nodes and tags, as BeautifulSoup parses it.                        *)
(***************************************************************************)
EXTENDS Integers, Sequences, FiniteSets, TLC

(* ---------------- bounds ---------------- *)
\* longest source spine
MaxDocs == 3
\* most paragraphs of a document body handed to the truncator alone
MaxLeaves == 3
\* largest character budget handed to the truncator alone
MaxRemain == 4
\* most images of a book handed to the cover resolver alone
MaxImages == 2
\* most stylesheet references of a document handed to the stylesheet functions
MaxLinks == 2
\* most calls of the stylesheet functions on one document
MaxCalls == 2

(* ---------------- characters and strings ---------------- *)
SP == 0
NL == 0 - 1
IsSpace(c) == c \in {SP, NL}

\* the visible characters o+1 .. o+n
Chars(o, n) == [i \in 1..n |-> o + i]

RECURSIVE LStrip(_)
LStrip(s) == IF s # <<>> /\ IsSpace(Head(s)) THEN LStrip(Tail(s)) ELSE s

RECURSIVE RStrip(_)
RStrip(s) ==
  IF s # <<>> /\ IsSpace(s[Len(s)]) THEN RStrip(SubSeq(s, 1, Len(s) - 1)) ELSE s

\* str.strip()
Strip(s) == RStrip(LStrip(s))

\* s[:n]
Prefix(s, n) == SubSeq(s, 1, IF n < Len(s) THEN n ELSE Len(s))

\* str.splitlines(): the pieces between line breaks, no empty last piece
RECURSIVE SplitFrom(_, _, _)
SplitFrom(s, i, cur) ==
  IF i > Len(s) THEN (IF cur = <<>> THEN <<>> ELSE <<cur>>)
  ELSE IF s[i] = NL THEN <<cur>> \o SplitFrom(s, i + 1, <<>>)
  ELSE SplitFrom(s, i + 1, Append(cur, s[i]))
SplitLines(s) == SplitFrom(s, 1, <<>>)

\* "\n".join(parts)
RECURSIVE JoinNL(_)
JoinNL(parts) ==
  IF parts = <<>> THEN <<>>
  ELSE IF Len(parts) = 1 THEN parts[1]
  ELSE parts[1] \o <<NL>> \o JoinNL(Tail(parts))

\* [Strip(p) for p in parts if Strip(p)]
RECURSIVE StripNonEmpty(_)
StripNonEmpty(parts) ==
  IF parts = <<>> THEN <<>>
  ELSE (IF Strip(Head(parts)) = <<>> THEN <<>> ELSE <<Strip(Head(parts))>>)
       \o StripNonEmpty(Tail(parts))

(* ---------------- markup trees ---------------- *)
TextNode(s) == [kind |-> "text", name |-> "", text |-> s, children |-> <<>>]
Tag(nm, ch) == [kind |-> "tag", name |-> nm, text |-> <<>>, children |-> ch]

\* the tags whose subtree extract_visible_text decomposes
HiddenTags == {"script", "style", "noscript"}

\* the strings of a subtree in document order, hidden subtrees left out
RECURSIVE AllStrings(_)
RECURSIVE StringsOf(_)
AllStrings(e) ==
  IF e.kind = "text" THEN <<e.text>>
  ELSE IF e.name \in HiddenTags THEN <<>>
  ELSE StringsOf(e.children)
StringsOf(ch) ==
  IF ch = <<>> THEN <<>> ELSE AllStrings(Head(ch)) \o StringsOf(Tail(ch))

\* soup.get_text(separator="\n", strip=True) followed by the line clean-up
CleanText(strs) == JoinNL(StripNonEmpty(SplitLines(JoinNL(StripNonEmpty(strs)))))

\* a parsed document: the head (title, stylesheet links) and the body tree;
\* mentions are the stylesheet paths spelled out anywhere else in the document
NoTitle == <<NL>>
Content(hasHead, title, links, hasBody, body) ==
  [hasHead |-> hasHead, title |-> title, links |-> links,
   hasBody |-> hasBody, body |-> body, mentions |-> {}]

HeadStrings(c) ==
  IF c.hasHead /\ c.title # NoTitle THEN <<c.title>> ELSE <<>>
BodyStrings(c) == IF c.hasBody THEN AllStrings(c.body) ELSE <<>>

extract_visible_text(c) == CleanText(HeadStrings(c) \o BodyStrings(c))

\* the visible text of the body alone
BodyText(c) == CleanText(BodyStrings(c))

(* ---------------- stylesheet references ---------------- *)
\* the stylesheet paths and references of the model
Hrefs ==
  {"style.css", "../style.css", "item/style.css", "../item/style.css",
   "mystyle.css", "other.css", "a/style.css", "b/style.css",
   "../b/style.css"}

\* `css_file in content_str` for the references a document can hold: the
\* path itself, or the path behind any prefix
HrefContains(h, f) ==
  \/ h = f
  \/ h = "../style.css" /\ f = "style.css"
  \/ h = "item/style.css" /\ f = "style.css"
  \/ h = "mystyle.css" /\ f = "style.css"
  \/ h = "../item/style.css" /\ f \in {"style.css", "item/style.css"}
  \/ h \in {"a/style.css", "b/style.css"} /\ f = "style.css"
  \/ h = "../b/style.css" /\ f \in {"style.css", "b/style.css"}

\* add_css_to_xhtml_minimal: nothing changes when any known stylesheet is
\* already named; else one link per stylesheet goes before </head>, and a
\* document without head gets one (add_css_to_xhtml_fallback)
add_css_to_xhtml_minimal(c, css_files) ==
  IF css_files = <<>> THEN c
  ELSE IF \E i \in 1..Len(css_files) :
            \/ \E j \in 1..Len(c.links) : HrefContains(c.links[j], css_files[i])
            \/ css_files[i] \in c.mentions
       THEN c
  ELSE IF c.hasHead THEN [c EXCEPT !.links = c.links \o css_files]
  ELSE [c EXCEPT !.hasHead = TRUE, !.title = NoTitle, !.links = css_files]

(* ---------------- structural truncator ---------------- *)
\* build_partial_xhtml_fallback: one <p> per non-blank line of the text
RECURSIVE Paragraphs(_)
Paragraphs(ls) ==
  IF ls = <<>> THEN <<>>
  ELSE (IF Strip(Head(ls)) = <<>> THEN <<>>
        ELSE <<Tag("p", <<TextNode(Head(ls))>>)>>) \o Paragraphs(Tail(ls))

build_partial_xhtml_fallback(title, text) ==
  LET ps == Paragraphs(SplitLines(text)) IN
  Content(TRUE, title, <<>>, TRUE,
          Tag("body", IF ps = <<>> THEN <<Tag("p", <<>>)>> ELSE ps))

\* hasattr(element, 'name'): BeautifulSoup gives every Tag a name and every
\* NavigableString a name property (of value None)
HasAttrName(e) == e.kind \in {"tag", "text"}

\* element.string: the text of a text node, for a tag the string of its only
\* child if it has exactly one, else None (modelled as the empty string)
RECURSIVE StringOf(_)
StringOf(e) ==
  IF e.kind = "text" THEN e.text
  ELSE IF Len(e.children) = 1 THEN StringOf(e.children[1]) ELSE <<>>

\* the test of line 115
IsTextLeaf(e) == StringOf(e) # <<>> /\ ~HasAttrName(e)

\* process_element: [node, cur, rm, gone]; rm is the returned flag, gone says
\* that the node itself left the tree (rm with ~gone: the node was put in the
\* place of the original, whose later extract() changes nothing)
RECURSIVE process_element(_, _, _)
RECURSIVE ProcessChildren(_, _, _)
process_element(e, cur, target_chars) ==
  IF cur >= target_chars
  THEN [node |-> e, cur |-> cur, rm |-> TRUE, gone |-> TRUE]
  ELSE IF IsTextLeaf(e) /\ Strip(StringOf(e)) # <<>>
  THEN LET text == Strip(StringOf(e)) IN
       IF cur + Len(text) <= target_chars
       THEN [node |-> e, cur |-> cur + Len(text), rm |-> FALSE, gone |-> FALSE]
       ELSE LET remaining == target_chars - cur IN
            IF remaining > 0
            THEN [node |-> TextNode(Prefix(text, remaining)),
                  cur |-> target_chars, rm |-> TRUE, gone |-> FALSE]
            ELSE [node |-> e, cur |-> cur, rm |-> TRUE, gone |-> TRUE]
  ELSE IF e.kind = "tag"
  THEN LET r == ProcessChildren(e.children, cur, target_chars) IN
       [node |-> [e EXCEPT !.children = r.nodes], cur |-> r.cur,
        rm |-> r.cur >= target_chars, gone |-> r.cur >= target_chars]
  ELSE [node |-> e, cur |-> cur, rm |-> cur >= target_chars,
        gone |-> cur >= target_chars]

\* the loop over list(element.children) and the removal of the marked ones
ProcessChildren(ch, cur, target_chars) ==
  IF ch = <<>> THEN [nodes |-> <<>>, cur |-> cur]
  ELSE LET r == process_element(Head(ch), cur, target_chars)
           rest == ProcessChildren(Tail(ch), r.cur, target_chars)
       IN [nodes |-> (IF r.rm /\ r.gone THEN <<>> ELSE <<r.node>>) \o rest.nodes,
           cur |-> rest.cur]

\* the walk taken from the root of the document: the head is emptied with
\* the rest
build_partial_xhtml_from_root(original_content, target_chars, title, css_files) ==
  [original_content EXCEPT
     !.title = NoTitle, !.links = <<>>,
     !.body = process_element(original_content.body, 0, target_chars).node]

\* build_partial_xhtml_from_original
build_partial_xhtml_from_original(original_content, target_chars, title, css_files) ==
  LET titled == IF original_content.hasHead /\ title # <<>>
                THEN [original_content EXCEPT !.title = title]
                ELSE original_content
      temp_content == add_css_to_xhtml_minimal(original_content, css_files)
      soup == IF original_content.hasHead /\ css_files # <<>>
                 /\ temp_content # original_content
              THEN temp_content ELSE titled
  IN IF ~soup.hasBody
     THEN build_partial_xhtml_fallback(
            title, Prefix(extract_visible_text(original_content), target_chars))
     ELSE [soup EXCEPT !.body = process_element(soup.body, 0, target_chars).node]

(* ---------------- cover resolver ---------------- *)
\* an image asset: media_image is media_type.startswith("image/"), type_image
\* is membership in get_items_of_type(ITEM_IMAGE), name_cover is
\* "cover" in file_name.lower() or "封面" in it, size is len(get_content())
Image(id, mi, ti, props, nc, size) ==
  [id |-> id, media_image |-> mi, type_image |-> ti, props |-> props,
   name_cover |-> nc, size |-> size]
\* image identifiers are positive numbers; 0 names no image
NoImage == Image(0, FALSE, FALSE, {}, FALSE, 0)

\* positions of the items of a sequence that satisfy a test, in order
Positions(items, P(_)) == {i \in 1..Len(items) : P(items[i])}
Min(S) == CHOOSE x \in S : \A y \in S : x <= y

\* the first of the positions S, whatever its size
FirstListed(items, S) == Min(S)

\* max(..., key=size) and sort(key=size, reverse=True)[0]: the first of the
\* largest among the positions S
FirstLargest(items, S) ==
  Min({i \in S : \A j \in S : items[j].size <= items[i].size})

CoverProps == {"cover-image", "cover"}

find_cover_image_item(bk) ==
  LET items == bk.images
      ByMeta == IF bk.meta_cover = <<>> THEN {}
                ELSE Positions(items,
                       LAMBDA it : it.id = bk.meta_cover[1] /\ it.media_image)
      ByProps == Positions(items,
                   LAMBDA it : it.type_image /\ it.props \cap CoverProps # {})
      ByName == Positions(items, LAMBDA it : it.type_image /\ it.name_cover)
      AllImages == Positions(items, LAMBDA it : it.type_image)
  IN IF ByMeta # {} THEN items[Min(ByMeta)]
     ELSE IF ByProps # {} THEN items[Min(ByProps)]
     ELSE IF ByName # {} THEN items[FirstLargest(items, ByName)]
     ELSE IF AllImages # {} THEN items[FirstLargest(items, AllImages)]
     ELSE NoImage

(* ---------------- the book ---------------- *)
\* identifiers and file names: a stem and a number ("partial_3" is the stem
\* "partial" with 3)
Id(base, n) == [base |-> base, n |-> n]
NavId == Id("nav", 0)
CoverPageId == Id("cover_page", 0)

\* item.get_id().lower() in ['cover', 'cover_page'] or
\* 'cover' in (item.file_name or '').lower()
IsCoverDoc(d) ==
  \/ d.id.base \in {"cover", "cover_page"} /\ d.id.n = 0
  \/ d.file_name.base \in {"cover", "cover_page"}

Doc(id, fn, kind, title, content) ==
  [id |-> id, file_name |-> fn, kind |-> kind, title |-> title,
   content |-> content]

\* n paragraphs of len characters each, the characters numbered through
Paras(n, len) ==
  [i \in 1..n |-> Tag("p", <<TextNode(Chars((i - 1) * len, len))>>)]

LeafCounts == {1, 2}
LeafLens == {2, 18}

Chapter(i, n, len) ==
  Doc(Id("ch", i), Id("ch", i), "chapter", <<>>,
      Content(TRUE, NoTitle, <<>>, TRUE, Tag("body", Paras(n, len))))
\* a cover page holds an image and no text
CoverDoc ==
  Doc(Id("cover", 0), Id("cover", 0), "cover", <<>>,
      Content(TRUE, NoTitle, <<>>, TRUE, Tag("body", <<Tag("img", <<>>)>>)))
\* the navigation document (EpubNav) of the source, when its spine lists it
NavDoc ==
  Doc(NavId, NavId, "nav", <<>>,
      Content(TRUE, Chars(100, 1), <<>>, TRUE, Tag("body", Paras(1, 2))))

DocsAt(i) ==
  {Chapter(i, n, len) : n \in LeafCounts, len \in LeafLens} \cup {CoverDoc, NavDoc}

\* the document sequences of k documents, identifiers distinct
RECURSIVE DocSeqsOf(_)
DocSeqsOf(k) ==
  IF k = 0 THEN {<<>>}
  ELSE UNION {{Append(s, d) : d \in {x \in DocsAt(k) :
                                      \A j \in 1..(k - 1) : s[j].id # x.id}} :
              s \in DocSeqsOf(k - 1)}

\* the document sequences of at most MaxDocs documents
DocSeqs == UNION {DocSeqsOf(k) : k \in 0..MaxDocs}

PlainImage == Image(1, TRUE, TRUE, {}, FALSE, 5)

\* how the package document of the source lists its spine: not at all, with
\* plain entries, with entries that carry attributes, and those last with the
\* whole <spine> element on one line
SpineModes == {"absent", "plain", "marked", "marked_one_line"}

\* an <itemref> of the source: "" stands for an attribute left out
ItemRef(idref, linear, properties) ==
  [idref |-> idref, linear |-> linear, properties |-> properties]

\* the attributes of the i-th entry of a marked spine
MarkedLinear(i) == IF i >= 2 THEN "no" ELSE ""
MarkedProperties(i) == IF i % 2 = 1 THEN "page-spread-left" ELSE ""

\* spine is what the reader keeps of the entries, (idref, linear); itemrefs
\* and itemref_lines are the text of the package document
Book(docs, mode, images, meta, styles) ==
  LET marked == mode \in {"marked", "marked_one_line"}
      refs == IF mode = "absent" THEN <<>>
              ELSE [i \in 1..Len(docs) |->
                      ItemRef(docs[i].id,
                              IF marked THEN MarkedLinear(i) ELSE "",
                              IF marked THEN MarkedProperties(i) ELSE "")]
  IN [docs |-> docs,
      spine |-> [i \in 1..Len(refs) |->
                   <<refs[i].idref, IF refs[i].linear = "no" THEN "no" ELSE "yes">>],
      itemrefs |-> refs,
      itemref_lines |-> mode # "marked_one_line",
      images |-> images, meta_cover |-> meta, styles |-> styles]

\* get_spine_doc_items: the documents the spine names, in spine order; all
\* documents when that gives none
get_spine_doc_items(bk) ==
  LET Find(sid) == {i \in 1..Len(bk.docs) : bk.docs[i].id = sid}
      RECURSIVE Collect(_)
      Collect(sp) ==
        IF sp = <<>> THEN <<>>
        ELSE (IF Find(Head(sp)[1]) = {} THEN <<>>
              ELSE <<bk.docs[CHOOSE i \in Find(Head(sp)[1]) :
                               \A j \in Find(Head(sp)[1]) : j <= i]>>)
             \o Collect(Tail(sp))
      items == Collect(bk.spine)
  IN IF items = <<>> THEN bk.docs ELSE items

\* calculate_total_chars
ChapterLengths(items) ==
  [i \in 1..Len(items) |-> Len(extract_visible_text(items[i].content))]
RECURSIVE SumSeq(_)
SumSeq(s) == IF s = <<>> THEN 0 ELSE Head(s) + SumSeq(Tail(s))

\* the target without its floor of 1
TargetUnclamped(total) == total \div 10

\* max(1, math.floor(total_chars * 0.10))
Target(total) == IF total \div 10 < 1 THEN 1 ELSE total \div 10

(* ---------------- stylesheet path correction ---------------- *)
\* original_href.startswith('../') and original_href[3:]
StartsWithUp(h) == h \in {"../style.css", "../item/style.css", "../b/style.css"}
DropUp(h) ==
  IF h = "../style.css" THEN "style.css"
  ELSE IF h = "../b/style.css" THEN "b/style.css" ELSE "item/style.css"
\* original_path.split('/')[-1]
Basename(p) ==
  IF p \in {"item/style.css", "style.css", "a/style.css", "b/style.css"}
  THEN "style.css" ELSE p
\* original_href.endswith(name)
EndsWith(h, name) ==
  \/ h = name
  \/ name = "style.css"
       /\ h \in {"item/style.css", "mystyle.css", "../style.css",
                 "../item/style.css", "a/style.css", "b/style.css",
                 "../b/style.css"}

\* the path a reference is rewritten to: the first entry of the mapping that
\* matches, or the reference itself
RECURSIVE MappedPath(_, _)
MappedPath(h, mapping) ==
  IF mapping = <<>> THEN h
  ELSE IF h = Head(mapping)[1] \/ EndsWith(h, Basename(Head(mapping)[1]))
       THEN Head(mapping)[2]
  ELSE MappedPath(h, Tail(mapping))

Corrected(h, mapping) ==
  IF StartsWithUp(h)
  THEN (IF \E i \in 1..Len(mapping) : mapping[i][2] = DropUp(h)
        THEN DropUp(h) ELSE h)
  ELSE MappedPath(h, mapping)

\* one content_str.replace per reference found, in the order found
RECURSIVE FixLinks(_, _, _)
FixLinks(links, matches, mapping) ==
  IF matches = <<>> THEN links
  ELSE FixLinks([i \in 1..Len(links) |->
                   IF links[i] = Head(matches)
                   THEN Corrected(Head(matches), mapping) ELSE links[i]],
                Tail(matches), mapping)

fix_css_paths_in_content(c, mapping) ==
  [c EXCEPT !.links = FixLinks(c.links, c.links, mapping)]

\* lines 862-878: 'item/' is stripped from the stylesheet paths
CorrectedPath(p) == IF p = "item/style.css" THEN "style.css" ELSE p
CssPathMapping(styles) ==
  [i \in 1..Len(styles) |-> <<styles[i], CorrectedPath(styles[i])>>]
CssFiles(styles) == [i \in 1..Len(styles) |-> CorrectedPath(styles[i])]

\* create_cover_html: the page that shows the image
CoverTitle == Chars(200, 2)
create_cover_html(img) ==
  [id |-> CoverPageId, file_name |-> Id("cover", 0), origin |-> "cover_html",
   src |-> 0, img |-> img.id,
   content |-> Content(TRUE, CoverTitle, <<>>, TRUE,
                       Tag("body", <<Tag("div", <<Tag("img", <<>>)>>)>>))]

\* create_raw_xhtml_item, with where the item comes from
RawItem(id, fn, origin, src, content) ==
  [id |-> id, file_name |-> fn, origin |-> origin, src |-> src, img |-> 0,
   content |-> content]

(* ---------------- make_epub_sample_10pct ---------------- *)
VARIABLES
  book, include_cover, complete_chapters_only,   \* the arguments
  pc,                                            \* position in the function
  spine_items, chapter_lengths, total_chars, target,
  cover_image_item, css_files, css_path_mapping,
  new_book, new_spine, idx, collected,
  out_spine, written, out_files, error, log,
  trunc,                                         \* a call of the truncator
  cov,                                           \* a call of the cover resolver
  css_call                                       \* calls of the stylesheet functions

vars == <<book, include_cover, complete_chapters_only, pc, spine_items,
          chapter_lengths, total_chars, target, cover_image_item, css_files,
          css_path_mapping, new_book, new_spine, idx, collected, out_spine,
          written, out_files, error, log, trunc, cov, css_call>>

runVars == <<book, include_cover, complete_chapters_only, pc, spine_items,
             chapter_lengths, total_chars, target, cover_image_item, css_files,
             css_path_mapping, new_book, new_spine, idx, collected, out_spine,
             written, out_files, error, log>>

NoContent == Content(FALSE, NoTitle, <<>>, FALSE, Tag("body", <<>>))
TruncCall(state, c, n, title, css, out) ==
  [state |-> state, content |-> c, target_chars |-> n, title |-> title,
   css_files |-> css, out |-> out]
NoTrunc == TruncCall("idle", NoContent, 0, <<>>, <<>>, NoContent)

CoverCall(state, bk, result) == [state |-> state, book |-> bk, result |-> result]
NoBook == [docs |-> <<>>, spine |-> <<>>, itemrefs |-> <<>>,
           itemref_lines |-> TRUE, images |-> <<>>, meta_cover |-> <<>>,
           styles |-> <<>>]
NoCov == CoverCall("idle", NoBook, NoImage)

\* the stylesheets of the book, the document as it was, the functions called
\* on it and the document after each call
CssCall(state, styles, content, calls, outs) ==
  [state |-> state, styles |-> styles, content |-> content, calls |-> calls,
   outs |-> outs]
NoCss == CssCall("idle", <<>>, NoContent, <<>>, <<>>)

\* the state of a run that has not started
RunInit(bk, ic, cc, at) ==
  /\ book = bk
  /\ include_cover = ic
  /\ complete_chapters_only = cc
  /\ pc = at
  /\ spine_items = <<>>
  /\ chapter_lengths = <<>>
  /\ total_chars = 0
  /\ target = 0
  /\ cover_image_item = NoImage
  /\ css_files = <<>>
  /\ css_path_mapping = <<>>
  /\ new_book = FALSE
  /\ new_spine = <<>>
  /\ idx = 1
  /\ collected = 0
  /\ out_spine = <<>>
  /\ written = FALSE
  /\ out_files = <<>>
  /\ error = "none"
  /\ log = {}

\* include_cover, the images and the stylesheets of the book and the
\* stylesheet references of its documents: no cover wanted, or wanted with
\* the images the book holds
Setups ==
  {<<FALSE, <<>>, <<>>, <<>>>>,
   <<TRUE, <<>>, <<"item/style.css">>, <<>>>>,
   <<TRUE, <<PlainImage>>, <<>>, <<>>>>,
   <<TRUE, <<PlainImage>>, <<"item/style.css">>, <<"item/style.css">>>>}

\* the documents with the given stylesheet references in their heads
WithLinks(docs, links) ==
  [i \in 1..Len(docs) |-> [docs[i] EXCEPT !.content.links = links]]

Init ==
  /\ \E docs \in DocSeqs, mode \in SpineModes, st \in Setups, cc \in BOOLEAN :
       RunInit(Book(WithLinks(docs, st[4]), mode, st[2], <<>>, st[3]),
               st[1], cc, "start")
  /\ trunc = NoTrunc
  /\ cov = NoCov
  /\ css_call = NoCss

\* the test of line 779 with the comparison slipped
NoReadableTextBelow(total) == total < 0

\* the test of line 779 left out: every book goes on
NoReadableTextSkipped(total) == FALSE

\* the test of line 779
NoReadableText(total) == total = 0

\* lines 775-784: read the book, measure it, fail when it has no text
Start ==
  /\ pc = "start"
  /\ LET items == get_spine_doc_items(book)
         lens == ChapterLengths(items)
         total == SumSeq(lens)
     IN /\ spine_items' = items
        /\ chapter_lengths' = lens
        /\ total_chars' = total
        /\ IF NoReadableText(total)
           THEN /\ error' = "ValueError"
                /\ pc' = "failed"
                /\ UNCHANGED <<target, new_book>>
           ELSE /\ target' = Target(total)
                /\ new_book' = TRUE
                /\ pc' = "assets"
                /\ UNCHANGED error
  /\ UNCHANGED <<book, include_cover, complete_chapters_only, cover_image_item,
                 css_files, css_path_mapping, new_spine, idx, collected,
                 out_spine, written, out_files, log, trunc, cov,
                 css_call>>

\* lines 797-878: find and clone the cover image (the clone may fail, which
\* is caught), copy the assets, collect the stylesheet paths
Assets ==
  /\ pc = "assets"
  /\ LET found == IF include_cover THEN find_cover_image_item(book) ELSE NoImage
     IN \E cloned \in BOOLEAN :
          /\ found = NoImage => cloned
          /\ cover_image_item' = IF cloned THEN found ELSE NoImage
          /\ log' = IF cloned THEN log ELSE log \cup {"clone_cover_failed"}
  /\ css_files' = CssFiles(book.styles)
  /\ css_path_mapping' = CssPathMapping(book.styles)
  /\ pc' = "cover_page"
  /\ UNCHANGED <<book, include_cover, complete_chapters_only, spine_items,
                 chapter_lengths, total_chars, target, new_book, new_spine,
                 idx, collected, out_spine, written, out_files, error, trunc, cov,
                 css_call>>

\* lines 883-894: the first spine document that looks like a cover page
ExistingCoverIndex ==
  LET S == {i \in 1..Len(spine_items) : IsCoverDoc(spine_items[i])}
  IN IF include_cover /\ S # {} THEN Min(S) ELSE 0

\* lines 896-931: synthesize a cover page unless the book brings its own
CoverPage ==
  /\ pc = "cover_page"
  /\ LET existing == ExistingCoverIndex # 0
         hasImage == cover_image_item # NoImage
         AllImages == Positions(book.images, LAMBDA it : it.type_image)
     IN IF include_cover /\ hasImage /\ ~existing
        THEN /\ new_spine' = Append(new_spine, create_cover_html(cover_image_item))
             /\ log' = log \cup {"cover_page_created"}
        ELSE IF include_cover /\ existing /\ ~hasImage /\ AllImages # {}
        THEN /\ new_spine' =
                  <<create_cover_html(
                      book.images[FirstLargest(book.images, AllImages)])>>
                  \o new_spine
             /\ log' = log \cup {"cover_page_repaired"}
        ELSE /\ new_spine' = new_spine
             /\ log' = IF include_cover /\ existing
                       THEN log \cup {"cover_page_of_book"}
                       ELSE IF include_cover
                       THEN log \cup {"no_cover_image"} ELSE log
  /\ pc' = "scan"
  /\ UNCHANGED <<book, include_cover, complete_chapters_only, spine_items,
                 chapter_lengths, total_chars, target, cover_image_item,
                 css_files, css_path_mapping, new_book, idx, collected,
                 out_spine, written, out_files, error, trunc, cov,
                 css_call>>

\* the document rebuilt from its plain text in place of the copy
FixedContentPlain(it) ==
  build_partial_xhtml_fallback(it.title, extract_visible_text(it.content))

\* lines 944-947 and 977-980
FixedContent(it) ==
  IF css_path_mapping # <<>>
  THEN fix_css_paths_in_content(it.content, css_path_mapping)
  ELSE it.content

\* the test of line 939 with <= for <
FitsWholeInclusive(acc, ch_len, tgt) == acc + ch_len <= tgt

\* the test of line 939
FitsWhole(acc, ch_len, tgt) == acc + ch_len < tgt

\* the counter of line 960 taking the length away
ConsumedLess(acc, ch_len) == acc - ch_len

\* line 960: collected += ch_len
Consumed(acc, ch_len) == acc + ch_len

\* lines 935-961: a document that fits is copied whole
ScanWhole ==
  /\ pc = "scan"
  /\ idx <= Len(spine_items)
  /\ FitsWhole(collected, chapter_lengths[idx], target)
  /\ LET it == spine_items[idx]
     IN new_spine' = Append(new_spine,
                       RawItem(it.id, it.file_name, "raw", idx, FixedContent(it)))
  /\ collected' = Consumed(collected, chapter_lengths[idx])
  /\ idx' = idx + 1
  /\ pc' = IF idx + 1 > Len(spine_items) THEN "spine" ELSE "scan"
  /\ UNCHANGED <<book, include_cover, complete_chapters_only, spine_items,
                 chapter_lengths, total_chars, target, cover_image_item,
                 css_files, css_path_mapping, new_book, out_spine, written, out_files,
                 error, log, trunc, cov,
                 css_call>>

\* the stop of lines 962-966 with the boundary document cut all the same
ScanStopCutting ==
  /\ pc = "scan"
  /\ idx <= Len(spine_items)
  /\ ~FitsWhole(collected, chapter_lengths[idx], target)
  /\ complete_chapters_only
  /\ LET it == spine_items[idx]
     IN new_spine' = Append(new_spine,
          RawItem(Id("partial", idx), Id("partial", idx), "partial", idx,
                  build_partial_xhtml_from_original(
                    FixedContent(it), target - collected, it.title, css_files)))
  /\ log' = log \cup {"partial_created"}
  /\ pc' = "spine"
  /\ UNCHANGED <<book, include_cover, complete_chapters_only, spine_items,
                 chapter_lengths, total_chars, target, cover_image_item,
                 css_files, css_path_mapping, new_book, idx, collected,
                 out_spine, written, out_files, error, trunc, cov,
                 css_call>>

\* lines 962-966: complete chapters only: stop at the boundary document
ScanStop ==
  /\ pc = "scan"
  /\ idx <= Len(spine_items)
  /\ ~FitsWhole(collected, chapter_lengths[idx], target)
  /\ complete_chapters_only
  /\ log' = log \cup {"chapters_summary"}
  /\ pc' = "spine"
  /\ UNCHANGED <<book, include_cover, complete_chapters_only, spine_items,
                 chapter_lengths, total_chars, target, cover_image_item,
                 css_files, css_path_mapping, new_book, new_spine, idx,
                 collected, out_spine, written, out_files, error, trunc, cov,
                 css_call>>

\* lines 967-1020: the boundary document is cut to the remaining budget; when
\* that raises, the plain text is cut instead
ScanPartial ==
  /\ pc = "scan"
  /\ idx <= Len(spine_items)
  /\ ~FitsWhole(collected, chapter_lengths[idx], target)
  /\ ~complete_chapters_only
  /\ LET it == spine_items[idx]
         remain == target - collected
         ch_txt == extract_visible_text(it.content)
     IN \E raised \in BOOLEAN :
          LET partial_content ==
                IF raised
                THEN build_partial_xhtml_fallback(
                       it.title, IF remain > 0 THEN Prefix(ch_txt, remain) ELSE <<>>)
                ELSE build_partial_xhtml_from_original(
                       FixedContent(it), remain, it.title, css_files)
          IN /\ new_spine' = Append(new_spine,
                   RawItem(Id("partial", idx), Id("partial", idx), "partial", idx,
                           partial_content))
             /\ log' = log \cup {IF raised THEN "partial_fallback" ELSE "partial_created"}
  /\ pc' = "spine"
  /\ UNCHANGED <<book, include_cover, complete_chapters_only, spine_items,
                 chapter_lengths, total_chars, target, cover_image_item,
                 css_files, css_path_mapping, new_book, idx, collected,
                 out_spine, written, out_files, error, trunc, cov,
                 css_call>>

\* the properties the source spine gives an identifier (the last entry wins)
SpineProps(id) ==
  LET S == {i \in 1..Len(book.spine) : book.spine[i][1] = id}
  IN IF S = {} THEN "default" ELSE book.spine[CHOOSE i \in S : \A j \in S : j <= i][2]

\* an entry of the new spine: props is what make_epub_sample_10pct gives it,
\* linear and properties are the attributes of its <itemref> once written
SpineEntry(id, props, origin, src) ==
  [id |-> id, props |-> props, origin |-> origin, src |-> src,
   linear |-> "", properties |-> ""]

\* lines 1022-1054: the spine of the new book, "nav" appended
BuildSpine ==
  /\ pc = "spine"
  /\ out_spine' =
       [i \in 1..Len(new_spine) |->
          SpineEntry(new_spine[i].id,
                     IF book.spine # <<>> THEN SpineProps(new_spine[i].id)
                     ELSE "default",
                     new_spine[i].origin, new_spine[i].src)]
       \o <<SpineEntry(NavId, "default", "nav", 0)>>
  /\ pc' = "write"
  /\ UNCHANGED <<book, include_cover, complete_chapters_only, spine_items,
                 chapter_lengths, total_chars, target, cover_image_item,
                 css_files, css_path_mapping, new_book, new_spine, idx,
                 collected, written, out_files, error, log, trunc, cov,
                 css_call>>

\* line 1056: the container writer is called; it writes every document as
\* it stands and one <itemref> per spine entry, with linear="no" for the
\* entries so marked when it can tell (it looks for is_linear on the item)
Write ==
  /\ pc = "write"
  /\ written' = TRUE
  /\ out_files' = [k \in 1..Len(new_spine) |-> new_spine[k].content]
  /\ \E told \in IF \E k \in 1..Len(out_spine) : out_spine[k].props = "no"
                  THEN BOOLEAN ELSE {TRUE} :
       out_spine' = [k \in 1..Len(out_spine) |->
                       IF told /\ out_spine[k].props = "no"
                       THEN [out_spine[k] EXCEPT !.linear = "no"]
                       ELSE out_spine[k]]
  /\ pc' = "restore"
  /\ UNCHANGED <<book, include_cover, complete_chapters_only, spine_items,
                 chapter_lengths, total_chars, target, cover_image_item,
                 css_files, css_path_mapping, new_book, new_spine, idx,
                 collected, error, log, trunc, cov, css_call>>

\* 'stylesheet' in current_content
HasStylesheetWord(c) == c.links # <<>>

\* lines 1059-1060, post_process_epub_restore_original: every written
\* document without a stylesheet reference is given the known ones (the
\* documents of the model carry no body or html class to restore)
RestoreOriginal ==
  /\ pc = "restore"
  /\ out_files' =
       IF css_files = <<>> THEN out_files
       ELSE [k \in 1..Len(out_files) |->
               IF HasStylesheetWord(out_files[k]) THEN out_files[k]
               ELSE add_css_to_xhtml_minimal(out_files[k], css_files)]
  /\ pc' = "spine_config"
  /\ UNCHANGED <<book, include_cover, complete_chapters_only, spine_items,
                 chapter_lengths, total_chars, target, cover_image_item,
                 css_files, css_path_mapping, new_book, new_spine, idx,
                 collected, out_spine, written, error, log, trunc, cov,
                 css_call>>

\* lines 639-674: the attributes read from the source package document, line
\* by line: an <itemref> on the line of the <spine> tag is never looked at
original_itemref_properties(bk) ==
  IF bk.itemref_lines
  THEN {r \in {bk.itemrefs[i] : i \in 1..Len(bk.itemrefs)} :
          r.linear # "" \/ r.properties # ""}
  ELSE {}

\* the attributes kept for an identifier: those of its last <itemref>
LastItemRef(bk, id) ==
  LET S == {i \in 1..Len(bk.itemrefs) : bk.itemrefs[i].idref = id}
  IN bk.itemrefs[CHOOSE i \in S : \A j \in S : j <= i]

\* lines 1062-1063, post_process_epub_spine_config: each <itemref> written
\* for an identifier the source gives attributes receives those it lacks
SpineConfig ==
  /\ pc = "spine_config"
  /\ out_spine' =
       [k \in 1..Len(out_spine) |->
          LET e == out_spine[k]
          IN IF \E r \in original_itemref_properties(book) : r.idref = e.id
             THEN LET r == LastItemRef(book, e.id)
                  IN [e EXCEPT
                        !.linear = IF r.linear # "" /\ e.linear = ""
                                   THEN r.linear ELSE e.linear,
                        !.properties = IF r.properties # "" /\ e.properties = ""
                                       THEN r.properties ELSE e.properties]
             ELSE e]
  /\ pc' = "done"
  /\ UNCHANGED <<book, include_cover, complete_chapters_only, spine_items,
                 chapter_lengths, total_chars, target, cover_image_item,
                 css_files, css_path_mapping, new_book, new_spine, idx,
                 collected, written, out_files, error, log, trunc, cov,
                 css_call>>

Next ==
  \/ Start
  \/ Assets
  \/ CoverPage
  \/ ScanWhole
  \/ ScanStop
  \/ ScanPartial
  \/ BuildSpine
  \/ Write
  \/ RestoreOriginal
  \/ SpineConfig

Spec == Init /\ [][Next]_vars

(* ---------------- the truncator alone ---------------- *)
\* the pieces a body is made of, the i-th with characters of its own
Blocks(i) ==
  { Tag("p", <<TextNode(Chars(10 * i, 1))>>),
    Tag("p", <<TextNode(Chars(10 * i, 3))>>),
    Tag("p", <<TextNode(<<SP>> \o Chars(10 * i, 2) \o <<NL>>)>>),
    TextNode(<<NL>>),
    Tag("div", <<Tag("p", <<TextNode(Chars(10 * i, 1))>>),
                 Tag("p", <<TextNode(Chars(10 * i + 1, 2))>>)>>) }

RECURSIVE BodiesOf(_)
BodiesOf(k) ==
  IF k = 0 THEN {<<>>}
  ELSE {Append(s, b) : s \in BodiesOf(k - 1), b \in Blocks(k)}

Bodies == UNION {BodiesOf(k) : k \in 1..MaxLeaves}

ItemTitle == Chars(300, 2)

\* a document without body element: its only text is a title of two lines
NoBodyDoc ==
  Content(TRUE, <<401, NL, 402, 403>>, <<>>, FALSE, Tag("body", <<>>))

\* the documents handed to the truncator
TruncDocs ==
  {Content(TRUE, Chars(400, 1), <<>>, TRUE, Tag("body", b)) : b \in Bodies}
    \cup {Content(TRUE, Chars(400, 1), <<h>>, TRUE, Tag("body", b)) :
            h \in {"style.css", "other.css"}, b \in BodiesOf(1)}
    \cup {NoBodyDoc}

InitTrunc ==
  /\ RunInit(NoBook, FALSE, FALSE, "idle")
  /\ cov = NoCov
  /\ css_call = NoCss
  /\ \E c \in TruncDocs, n \in 1..MaxRemain, title \in {<<>>, ItemTitle},
        css \in {<<>>, <<"style.css">>} :
       trunc = TruncCall("call", c, n, title, css, NoContent)

\* the handler of line 180 with the cut of the text left out
PartialRecoveredUncut(original_content, target_chars, title) ==
  build_partial_xhtml_fallback(title, extract_visible_text(original_content))

\* lines 180-183: what the truncator returns when anything in it raised
PartialRecovered(original_content, target_chars, title) ==
  build_partial_xhtml_fallback(
    title, Prefix(extract_visible_text(original_content), target_chars))

\* a call of the truncator: it returns the cut document, or parsing or the
\* walk raises and the handler of line 180 returns the plain-text document
Truncate ==
  /\ trunc.state = "call"
  /\ \E raised \in BOOLEAN :
       trunc' = [trunc EXCEPT
         !.state = IF raised THEN "recovered" ELSE "returned",
         !.out = IF raised
                 THEN PartialRecovered(trunc.content, trunc.target_chars,
                                       trunc.title)
                 ELSE build_partial_xhtml_from_original(
                        trunc.content, trunc.target_chars, trunc.title,
                        trunc.css_files)]
  /\ UNCHANGED runVars
  /\ UNCHANGED <<cov, css_call>>

NextTrunc == Truncate

SpecTrunc == InitTrunc /\ [][NextTrunc]_vars

(* ---------------- the cover resolver alone ---------------- *)
ImageSizes == {1, 2}
\* what marks an image as a cover: nothing, a property, or its name
ImageMarks ==
  {<<{}, FALSE>>, <<{"cover-image"}, FALSE>>, <<{"cover"}, FALSE>>, <<{}, TRUE>>}
\* image by media type and item type, by media type alone, by item type alone
ImageKinds == {<<TRUE, TRUE>>, <<TRUE, FALSE>>, <<FALSE, TRUE>>}
ImagesAt(i) ==
  {Image(i, k[1], k[2], m[1], m[2], size) :
     k \in ImageKinds, m \in ImageMarks, size \in ImageSizes}

RECURSIVE ImageSeqsOf(_)
ImageSeqsOf(k) ==
  IF k = 0 THEN {<<>>}
  ELSE {Append(s, x) : s \in ImageSeqsOf(k - 1), x \in ImagesAt(k)}

ImageSeqs == UNION {ImageSeqsOf(k) : k \in 0..MaxImages}

\* the cover declaration names no image, the first image, or an unknown id
MetaCovers == {<<>>, <<1>>, <<MaxImages + 1>>}

InitCover ==
  /\ RunInit(NoBook, FALSE, FALSE, "idle")
  /\ trunc = NoTrunc
  /\ css_call = NoCss
  /\ \E images \in ImageSeqs, meta \in MetaCovers :
       cov = CoverCall("call", Book(<<>>, "absent", images, meta, <<>>), NoImage)

FindCover ==
  /\ cov.state = "call"
  /\ cov' = [cov EXCEPT !.state = "returned",
                        !.result = find_cover_image_item(cov.book)]
  /\ UNCHANGED runVars
  /\ UNCHANGED <<trunc, css_call>>

NextCover == FindCover

SpecCover == InitCover /\ [][NextCover]_vars

(* ---------------- the stylesheet functions alone ---------------- *)
\* the sequences of at most k references
RECURSIVE LinkSeqsOf(_)
LinkSeqsOf(k) ==
  IF k = 0 THEN {<<>>}
  ELSE LinkSeqsOf(k - 1)
       \cup {Append(s, h) : s \in {x \in LinkSeqsOf(k - 1) : Len(x) = k - 1},
                            h \in Hrefs}

\* the stylesheets of a book (ITEM_STYLE file names)
StyleSets ==
  {<<>>, <<"style.css">>, <<"item/style.css">>, <<"item/style.css", "other.css">>,
   <<"a/style.css", "b/style.css">>}

\* documents with or without head, with some references, whose text may
\* spell out the name of a stylesheet
CssDocs ==
  {[Content(hh, IF hh THEN Chars(400, 1) ELSE NoTitle,
            IF hh THEN links ELSE <<>>, TRUE,
            Tag("body", Paras(1, 2))) EXCEPT !.mentions = m] :
     hh \in BOOLEAN, links \in LinkSeqsOf(MaxLinks), m \in {{}, {"style.css"}}}

InitCss ==
  /\ RunInit(NoBook, FALSE, FALSE, "idle")
  /\ trunc = NoTrunc
  /\ cov = NoCov
  /\ \E c \in CssDocs, styles \in StyleSets :
       css_call = CssCall("call", styles, c, <<>>, <<c>>)

\* the document after the calls made so far
CssCurrent == css_call.outs[Len(css_call.outs)]

\* a call of add_css_to_xhtml_minimal with the stylesheets of the book
AddCss ==
  /\ css_call.state = "call"
  /\ Len(css_call.calls) < MaxCalls
  /\ css_call' = [css_call EXCEPT
       !.calls = Append(@, "add_css"),
       !.outs = Append(@, add_css_to_xhtml_minimal(
                            CssCurrent, CssFiles(css_call.styles)))]
  /\ UNCHANGED runVars
  /\ UNCHANGED <<trunc, cov>>

\* a call of fix_css_paths_in_content with the mapping of the book
FixCss ==
  /\ css_call.state = "call"
  /\ Len(css_call.calls) < MaxCalls
  /\ css_call' = [css_call EXCEPT
       !.calls = Append(@, "fix_css"),
       !.outs = Append(@, fix_css_paths_in_content(
                            CssCurrent, CssPathMapping(css_call.styles)))]
  /\ UNCHANGED runVars
  /\ UNCHANGED <<trunc, cov>>

NextCss == AddCss \/ FixCss

SpecCss == InitCss /\ [][NextCss]_vars

(* ======================= properties ======================= *)
\* the run has measured the book and gone on
Measured ==
  pc \in {"assets", "cover_page", "scan", "spine", "write", "restore",
          "spine_config", "done"}
ScanOver == pc \in {"spine", "write", "restore", "spine_config", "done"}

\* the accumulated length before document i
RECURSIVE Acc(_)
Acc(i) == IF i <= 1 THEN 0 ELSE Acc(i - 1) + chapter_lengths[i - 1]

\* the boundary document of the specification: the first document for which
\* accumulated + length < target fails
BoundarySet ==
  {i \in 1..Len(spine_items) : ~(Acc(i) + chapter_lengths[i] < target)}
Boundary == Min(BoundarySet)

WholeAt == {k \in 1..Len(new_spine) : new_spine[k].origin = "raw"}
PartialAt == {k \in 1..Len(new_spine) : new_spine[k].origin = "partial"}
WholeSrcs == {new_spine[k].src : k \in WholeAt}

\* C1: the documents copied whole are exactly those before the boundary
\* document, in source order; the scan never passes the boundary document,
\* and nothing after it reaches the output.
C1_BudgetPartition ==
  (pc = "scan" \/ ScanOver) =>
    /\ BoundarySet # {}
    /\ idx <= Boundary
    /\ collected = Acc(idx)
    /\ WholeSrcs = 1..(idx - 1)
    /\ \A k, m \in WholeAt : k < m => new_spine[k].src < new_spine[m].src
    /\ ScanOver =>
         /\ idx = Boundary
         /\ \A k \in PartialAt : new_spine[k].src = Boundary
         /\ \A k \in 1..Len(new_spine) : new_spine[k].src <= Boundary

\* a finished run with a document copied whole, the boundary document after
\* it and an excluded document after that
C1_Witness ==
  /\ pc = "done"
  /\ Len(spine_items) = 3
  /\ Boundary = 2
  /\ WholeSrcs = {1}

\* C2: the returned body text is the first target_chars visible characters of
\* the source body text.
C2_ExactPrefix ==
  (trunc.state = "returned" /\ Len(BodyText(trunc.content)) >= trunc.target_chars)
    => BodyText(trunc.out) = Prefix(BodyText(trunc.content), trunc.target_chars)

\* the visible characters of the content documents of the output
RECURSIVE IncludedFrom(_)
IncludedFrom(k) ==
  IF k > Len(new_spine) THEN 0
  ELSE (IF new_spine[k].origin \in {"raw", "partial"}
        THEN Len(extract_visible_text(new_spine[k].content)) ELSE 0)
       + IncludedFrom(k + 1)
Included == IncludedFrom(1)

\* the longest text node of a document
MaxOf(S) == IF S = {} THEN 0 ELSE CHOOSE x \in S : \A y \in S : y <= x
LongestLeaf(c) ==
  LET strs == HeadStrings(c) \o BodyStrings(c)
  IN MaxOf({Len(Strip(strs[i])) : i \in 1..Len(strs)})

\* C3: with a boundary document truncated by the structural truncator in the
\* output, the visible characters included are at least min(total, target)
\* and fewer than target plus the length of one text node.
C3_InclusionBound ==
  (pc = "done" /\ "partial_created" \in log) =>
    /\ Included >= (IF total_chars < target THEN total_chars ELSE target)
    /\ Included < target + LongestLeaf(spine_items[idx].content)

\* C4: a book without visible text fails with the content-absence error
\* before a new book exists or the writer is called, and nothing else makes
\* the run fail.
C4_ContentAbsence ==
  /\ (pc \notin {"start", "idle"} /\ total_chars = 0) =>
       /\ pc = "failed"
       /\ error = "ValueError"
       /\ ~new_book
       /\ ~written
       /\ new_spine = <<>>
       /\ out_spine = <<>>
  /\ (pc = "failed" \/ error # "none") => (total_chars = 0 /\ error = "ValueError")

\* a failed run over a spine that holds a document
C4_Witness == pc = "failed" /\ Len(spine_items) >= 1 /\ error = "ValueError"

\* C5: the target is max(1, floor(total / 10)), between 1 and the total.
C5_Target ==
  /\ Measured =>
       /\ 1 <= target
       /\ target <= total_chars
       /\ total_chars < 20 => target = 1
       /\ total_chars >= 10 =>
            (10 * target <= total_chars /\ total_chars < 10 * target + 10)
  /\ Target(120) = 12
  /\ Target(15) = 1
  /\ \A t \in 1..19 : Target(t) = 1

\* a run over a book of fewer than 10 characters, where the floor of 1 acts
C5_Witness == pc = "done" /\ total_chars \in 1..9 /\ target = 1

C7_EmptySampleReported ==
  (complete_chapters_only /\ pc = "done" /\ WholeAt = {}) =>
    /\ ~written
    /\ "no_content_meets_threshold" \in log \/ error # "none"

\* the entries of the output spine that are the navigation document: the
\* "nav" entry and the source's navigation document
IsNavEntry(e) ==
  \/ e.id = NavId
  \/ e.origin = "raw" /\ spine_items[e.src].kind = "nav"

\* C8: the navigation document is the last entry of the output spine and
\* never the first.
C8_NavLastNeverFirst ==
  pc = "done" =>
    /\ IsNavEntry(out_spine[Len(out_spine)])
    /\ ~IsNavEntry(out_spine[1])

\* the entries of the output spine that are a cover page: the synthesized
\* one and the source's own
IsCoverEntry(e) ==
  \/ e.origin = "cover_html"
  \/ e.origin = "raw" /\ IsCoverDoc(spine_items[e.src])

\* C9: when a cover is wanted and the cover image is found, a cover page of
\* the output is its first entry.
C9_CoverFirst ==
  (pc = "done" /\ cover_image_item # NoImage) => \A k \in 1..Len(out_spine) : IsCoverEntry(out_spine[k]) => k = 1

\* the levels of the chain over the images of the book
LevelMeta(bk) ==
  IF bk.meta_cover = <<>> THEN {}
  ELSE {i \in 1..Len(bk.images) :
          bk.images[i].id = bk.meta_cover[1] /\ bk.images[i].media_image}
LevelFlag(bk, flags) ==
  {i \in 1..Len(bk.images) :
     bk.images[i].type_image /\ bk.images[i].props \cap flags # {}}
LevelName(bk) ==
  {i \in 1..Len(bk.images) : bk.images[i].type_image /\ bk.images[i].name_cover}
LevelAny(bk) == {i \in 1..Len(bk.images) : bk.images[i].type_image}

Largest(bk, S) == {i \in S : \A j \in S : bk.images[j].size <= bk.images[i].size}

\* the winners the chain allows, the second level told by the flags given
ChainWinners(bk, flags) ==
  IF LevelMeta(bk) # {} THEN {bk.images[i] : i \in LevelMeta(bk)}
  ELSE IF LevelFlag(bk, flags) # {} THEN {bk.images[i] : i \in LevelFlag(bk, flags)}
  ELSE IF LevelName(bk) # {} THEN {bk.images[i] : i \in Largest(bk, LevelName(bk))}
  ELSE IF LevelAny(bk) # {} THEN {bk.images[i] : i \in Largest(bk, LevelAny(bk))}
  ELSE {NoImage}

SynthAt == {k \in 1..Len(new_spine) : new_spine[k].origin = "cover_html"}

\* C11: when a cover is wanted and the source spine holds a cover page, the
\* output holds that page, in source order among the copied documents, and no
\* synthesized cover page; unless no cover image was located, and then a
\* synthesized cover page that shows the largest image comes first.
C11_ExistingCoverRule ==
  (pc = "done" /\ include_cover /\ ExistingCoverIndex # 0) =>
    IF cover_image_item # NoImage
    THEN /\ SynthAt = {}
         /\ \E k \in WholeAt : new_spine[k].src = ExistingCoverIndex
         /\ \A k, m \in WholeAt : k < m => new_spine[k].src < new_spine[m].src
    ELSE LevelAny(book) # {} =>
           /\ SynthAt = {1}
           /\ new_spine[1].img \in
                {book.images[i].id : i \in Largest(book, LevelAny(book))}

\* the calls of the truncator that took the plain-text path: the handler of
\* line 180, or a document without body
TookFallback ==
  \/ trunc.state = "recovered"
  \/ trunc.state = "returned" /\ ~trunc.content.hasBody

\* the text of each paragraph of a body made of paragraphs
ParagraphTexts(body) ==
  [i \in 1..Len(body.children) |->
     IF body.children[i].children = <<>> THEN <<>>
     ELSE body.children[i].children[1].text]

\* a document of head, title and a body of one or more <p>, each empty or
\* holding one text node
PlainParagraphs(c) ==
  /\ c.hasHead
  /\ c.hasBody
  /\ c.body.kind = "tag" /\ c.body.name = "body"
  /\ c.body.children # <<>>
  /\ \A i \in 1..Len(c.body.children) :
       LET p == c.body.children[i]
       IN /\ p.kind = "tag" /\ p.name = "p"
          /\ Len(p.children) <= 1
          /\ \A j \in 1..Len(p.children) : p.children[j].kind = "text"

\* C12: when the truncator raises, or the document has no body, the call
\* still returns: a document of plain paragraphs under the given title whose
\* lines are the first target_chars characters of the extracted text.
C12_Fallback ==
  TookFallback =>
    LET text == Prefix(extract_visible_text(trunc.content), trunc.target_chars)
        cut == IF text # <<>> /\ text[Len(text)] = NL
               THEN SubSeq(text, 1, Len(text) - 1) ELSE text
    IN /\ PlainParagraphs(trunc.out)
       /\ trunc.out.title = trunc.title
       /\ JoinNL(ParagraphTexts(trunc.out.body)) = cut
       /\ Len(BodyText(trunc.out)) <= trunc.target_chars

\* a document without body whose text of two lines is cut inside the second
C12_Witness ==
  /\ trunc.state = "returned"
  /\ ~trunc.content.hasBody
  /\ Len(extract_visible_text(trunc.content)) > trunc.target_chars
  /\ Len(trunc.out.body.children) = 2

\* the calls made of one of the stylesheet functions
CallsOf(fn) == {k \in 1..Len(css_call.calls) : css_call.calls[k] = fn}

\* C13: add_css_to_xhtml_minimal returns a document that declares a
\* stylesheet reference, whatever its path, as it was.
C13_ExistingRefsRespected ==
  \A k \in CallsOf("add_css") :
    css_call.outs[k].links # <<>> => css_call.outs[k + 1] = css_call.outs[k]

\* the last segment of a reference
HrefBasename(h) ==
  IF h \in {"style.css", "../style.css", "item/style.css", "../item/style.css",
            "a/style.css", "b/style.css", "../b/style.css"}
  THEN "style.css" ELSE h

\* the stylesheets that lost a prefix and that a reference names, by its
\* whole path or by its last segment
KnownFor(h, mapping) ==
  {j \in 1..Len(mapping) :
     /\ mapping[j][1] # mapping[j][2]
     /\ h = mapping[j][1] \/ HrefBasename(h) = HrefBasename(mapping[j][1])}

\* C14: fix_css_paths_in_content rewrites a reference to the corrected path
\* exactly when it names a stylesheet that lost its prefix, by its whole path
\* or by its last segment, and leaves every other reference as it was.
C14_PathCorrection ==
  \A k \in CallsOf("fix_css") :
    LET mapping == CssPathMapping(css_call.styles)
        before == css_call.outs[k]
        after == css_call.outs[k + 1]
    IN /\ after = [before EXCEPT !.links = after.links]
       /\ Len(after.links) = Len(before.links)
       /\ \A i \in 1..Len(before.links) :
            IF KnownFor(before.links[i], mapping) # {}
            THEN after.links[i] \in
                   {mapping[j][2] : j \in KnownFor(before.links[i], mapping)}
            ELSE after.links[i] = before.links[i]

\* the source document of an entry of the new spine
SourceOf(k) == spine_items[new_spine[k].src].content

\* what the run does to a document copied whole: path correction, then the
\* stylesheet references of the post-processing
Reprocessed(c) ==
  LET fixed == IF css_path_mapping # <<>>
               THEN fix_css_paths_in_content(c, css_path_mapping) ELSE c
  IN IF css_files = <<>> \/ fixed.links # <<>> THEN fixed
     ELSE add_css_to_xhtml_minimal(fixed, css_files)

RECURSIVE CharsOf(_)
CharsOf(strs) ==
  IF strs = <<>> THEN {}
  ELSE {Head(strs)[j] : j \in {x \in 1..Len(Head(strs)) : ~IsSpace(Head(strs)[x])}}
       \cup CharsOf(Tail(strs))

\* the visible characters under an element
VisibleChars(e) == CharsOf(AllStrings(e))

\* the tags of a subtree
RECURSIVE Elements(_)
Elements(e) ==
  IF e.kind # "tag" THEN {}
  ELSE {e} \cup UNION {Elements(e.children[i]) : i \in 1..Len(e.children)}

\* the calls that returned from the walk of the body
Walked == trunc.state = "returned" /\ trunc.content.hasBody

\* the characters of the body within the budget
KeptChars ==
  CharsOf(<<Prefix(BodyText(trunc.content), trunc.target_chars)>>)

\* an element of the source body is in the returned body, with some of its text
KeptElement(e) ==
  \E x \in Elements(trunc.out.body) :
    /\ x.name = e.name
    /\ VisibleChars(x) # {}
    /\ VisibleChars(x) \subseteq VisibleChars(e)

\* C16: an element of the body that holds text is in the returned body if and
\* only if one of its characters lies within the budget.
C16_TieBreak ==
  Walked =>
    \A e \in Elements(trunc.content.body) :
      VisibleChars(e) # {} => (KeptElement(e) <=> VisibleChars(e) \cap KeptChars # {})

\* s is the beginning of t
IsPrefixOf(s, t) == Len(s) <= Len(t) /\ SubSeq(t, 1, Len(s)) = s

\* the head of the returned document holds what the head of the source held:
\* the title, its own or the one passed in, and every stylesheet reference,
\* in order, followed at most by known stylesheets; no character of the
\* source title has gone into the body
HeadKept ==
  /\ trunc.out.hasHead = trunc.content.hasHead
  /\ trunc.out.title \in {trunc.content.title} \cup ({trunc.title} \ {<<>>})
  /\ IsPrefixOf(trunc.content.links, trunc.out.links)
  /\ \A i \in (Len(trunc.content.links) + 1)..Len(trunc.out.links) :
       \E j \in 1..Len(trunc.css_files) : trunc.out.links[i] = trunc.css_files[j]
  /\ VisibleChars(trunc.out.body) \cap CharsOf(<<trunc.content.title>>) = {}

C18_Insertion ==
  \A k \in CallsOf("add_css") :
    LET css == CssFiles(css_call.styles)
        before == css_call.outs[k]
        after == css_call.outs[k + 1]
    IN /\ before.links = <<>> =>
            after = [before EXCEPT !.hasHead = css # <<>> \/ before.hasHead,
                                   !.links = css]
       /\ add_css_to_xhtml_minimal(after, css) = after
       /\ (k < Len(css_call.calls) /\ css_call.calls[k + 1] = "add_css") =>
            css_call.outs[k + 2] = after

\* the <itemref> elements of the source for an identifier
SourceRefs(id) == {i \in 1..Len(book.itemrefs) : book.itemrefs[i].idref = id}

\* C19: in the finished sample, a spine entry whose identifier the source
\* spine holds carries the linear flag and the properties of the source
\* entry, and any other entry carries neither.
C19_SpineAttributes ==
  pc = "done" =>
    \A k \in 1..Len(out_spine) :
      LET e == out_spine[k]
      IN IF SourceRefs(e.id) # {}
         THEN /\ e.linear = LastItemRef(book, e.id).linear
              /\ e.properties = LastItemRef(book, e.id).properties
         ELSE e.linear = "" /\ e.properties = ""

\* C20: no step of the run lowers collected, and collected never exceeds the
\* total of visible characters.
C20_TextBudget ==
  [][collected' >= collected /\ collected' <= total_chars']_vars

\* a finished run that copied a document with text whole
C20_Witness ==
  /\ pc = "done"
  /\ collected > 0
  /\ collected < total_chars
  /\ WholeAt # {}

\* the visible characters of the files written for the documents copied
\* from the source
RECURSIVE WrittenFrom(_)
WrittenFrom(k) ==
  IF k > Len(out_files) THEN 0
  ELSE (IF new_spine[k].origin \in {"raw", "partial"}
        THEN Len(extract_visible_text(out_files[k])) ELSE 0)
       + WrittenFrom(k + 1)

\* C21: a book with visible text always has a boundary document: the scan
\* stops at a document of the book and never runs out of documents,
\* collected < target holds whenever the scan looks at a document, at the
\* boundary document 1 <= target - collected <= its length, and with
\* complete chapters only the visible characters included and written are
\* fewer than target.
C21_BoundaryExists ==
  (pc = "scan" \/ ScanOver) =>
    /\ total_chars > 0
    /\ idx <= Len(spine_items)
    /\ collected < target
    /\ ScanOver =>
         /\ ~FitsWhole(collected, chapter_lengths[idx], target)
         /\ 1 <= target - collected
         /\ target - collected <= chapter_lengths[idx]
         /\ target - collected
              <= Len(extract_visible_text(spine_items[idx].content))
         /\ complete_chapters_only =>
              /\ Included = collected
              /\ Included < target
              /\ pc = "done" => WrittenFrom(1) = Included

\* a finished run with complete chapters only that copied a document whole
\* and stopped at a boundary document longer than the remaining budget,
\* with a document left after it
C21_Witness ==
  /\ pc = "done"
  /\ complete_chapters_only
  /\ WholeAt # {}
  /\ collected > 0
  /\ idx < Len(spine_items)
  /\ target - collected < chapter_lengths[idx]

\* C22: when a cover is wanted and find_cover_image_item returns an image
\* (which the run copies into the new book), the output spine holds a cover
\* page, the synthesized one or the source's own, wherever the source's cover
\* page stands in the spine and in both chapter modes.
C22_CoverPagePresent ==
  (pc = "done" /\ include_cover /\ find_cover_image_item(book) # NoImage
     /\ cover_image_item # NoImage)
    => \E k \in 1..Len(out_spine) : IsCoverEntry(out_spine[k])

\* C23: a call of build_partial_xhtml_from_original with a non-empty title on
\* a document that has a head returns a document whose title is that title,
\* whether or not stylesheet references are inserted into the head.
C23_TitleSurvives ==
  (trunc.state = "returned" /\ trunc.title # <<>> /\ trunc.content.hasHead)
    => trunc.out.title = trunc.title

\* C24: fix_css_paths_in_content changes nothing when called again with the
\* same mapping on its own result, and with an empty mapping it returns the
\* document as it was.
C24_FixIdempotent ==
  \A k \in CallsOf("fix_css") :
    /\ CssPathMapping(css_call.styles) = <<>>
         => css_call.outs[k + 1] = css_call.outs[k]
    /\ (k > 1 /\ css_call.calls[k - 1] = "fix_css")
         => css_call.outs[k + 1] = css_call.outs[k]

====
